---- MODULE Spec2Model ----
(***************************************************************************)
(* Model of the Engage conversation validator                              *)
(* (src/conversation_validator.py): the per-conversation analysis          *)
(* (_analyze_conversation and the scorers it calls), the batch loop of     *)
(* main and the aggregation of generate_report.                            *)
(*                                                                         *)
(* Strings are TLA+ strings; str.lower() and the `in` substring test are   *)
(* computed character by character.  A float that the code obtains as a    *)
(* mean is kept as an exact reduced fraction [num, den]; similarity scores *)
(* are in hundredths (30 stands for 0.30).  A Python dict is a function    *)
(* whose domain is its key set; a dict with optional keys is a record that *)
(* may lack fields.                                                        *)
(***************************************************************************)
EXTENDS Integers, Sequences, FiniteSets, TLC

VARIABLES
    pc,                 \* position of main / of the unit call
    template_files,     \* main: the list of template files found
    file_i,             \* main: index of the file the for loop is at
    results,            \* main: the results list
    template,           \* the ConversationTemplate being executed
    conversation_data,  \* what _run_puppeteer_conversation returned
    execution_time,     \* execute_conversation_template: execution_time
    analysis,           \* _analyze_conversation: the analysis dict being built
    turn_i,             \* _analyze_conversation: index of the turn loop
    full_conversation_text, \* _analyze_conversation: the joined ai_responses
    calls,              \* number of scorer/extractor/tone/compliance calls made for this template
    embed_failed,       \* turn numbers of this template whose embedding call raised
    report,             \* generate_report: the report written
    call,               \* unit specification: the function called and its arguments
    ret                 \* unit specification: what the call returned

vars == <<pc, template_files, file_i, results, template, conversation_data,
          execution_time, analysis, turn_i, full_conversation_text, calls,
          embed_failed, report, call, ret>>

(***************************************************************************)
(* Bounds of the model.                                                    *)
(***************************************************************************)
MaxTemplates == 2    \* template files in one batch
MaxResults == 2      \* results handed to generate_report in the unit specification
MaxThemes == 2       \* themes handed to the similarity scorer in the unit specification
MaxProhibited == 2   \* phrases handed to the compliance check in the unit specification

(***************************************************************************)
(* Strings: str.lower() and the substring test.                            *)
(***************************************************************************)
UpperChars == "ABCDEFGHIJKLMNOPQRSTUVWXYZ"
LowerChars == "abcdefghijklmnopqrstuvwxyz"

CharAt(s, i) == SubSeq(s, i, i)

\* the lowercase letter of each uppercase letter
LowerOf ==
    [c \in {CharAt(UpperChars, i) : i \in 1..Len(UpperChars)} |->
        CharAt(LowerChars, CHOOSE i \in 1..Len(UpperChars) : CharAt(UpperChars, i) = c)]

LowerChar(c) == IF c \in DOMAIN LowerOf THEN LowerOf[c] ELSE c

RECURSIVE LowerFrom(_, _)
LowerFrom(s, i) ==
    IF i > Len(s) THEN "" ELSE LowerChar(CharAt(s, i)) \o LowerFrom(s, i + 1)

\* str.lower()
Lower(s) == LowerFrom(s, 1)

\* Python's `needle in hay` for strings
Contains(needle, hay) ==
    \E i \in 0..(Len(hay) - Len(needle)) : SubSeq(hay, i + 1, i + Len(needle)) = needle

RECURSIVE JoinFrom(_, _)
JoinFrom(strs, i) ==
    IF i > Len(strs) THEN ""
    ELSE IF i = Len(strs) THEN strs[i]
    ELSE strs[i] \o " " \o JoinFrom(strs, i + 1)

\* ' '.join(strs)
Join(strs) == JoinFrom(strs, 1)

(***************************************************************************)
(* Exact arithmetic for statistics.mean.                                   *)
(***************************************************************************)
Abs(n) == IF n < 0 THEN -n ELSE n

RECURSIVE GCD(_, _)
GCD(a, b) == IF b = 0 THEN a ELSE GCD(b, a % b)

\* the fraction n/d (d > 0) in lowest terms
Rat(n, d) ==
    LET g == GCD(Abs(n), d) IN
    IF n = 0 THEN [num |-> 0, den |-> 1] ELSE [num |-> n \div g, den |-> d \div g]

RatAdd(a, b) == Rat(a.num * b.den + b.num * a.den, a.den * b.den)

RatLess(a, b) == a.num * b.den < b.num * a.den

RECURSIVE SumRat(_, _)
SumRat(xs, i) == IF i > Len(xs) THEN Rat(0, 1) ELSE RatAdd(xs[i], SumRat(xs, i + 1))

\* statistics.mean of a non-empty sequence of fractions
mean(xs) == LET s == SumRat(xs, 1) IN Rat(s.num, s.den * Len(xs))

\* an int as a fraction
Int2Rat(n) == Rat(n, 1)

IntsToRats(ns) == [i \in 1..Len(ns) |-> Int2Rat(ns[i])]

RECURSIVE MaxFrom(_, _)
MaxFrom(ns, i) ==
    IF i = Len(ns) THEN ns[i]
    ELSE LET m == MaxFrom(ns, i + 1) IN IF ns[i] > m THEN ns[i] ELSE m

\* max of a non-empty sequence of ints
max(ns) == MaxFrom(ns, 1)

Range(f) == {f[x] : x \in DOMAIN f}

\* dict.get(key, default)
Get(d, key, default) == IF key \in DOMAIN d THEN d[key] ELSE default

EmptyDict == <<>>

\* the outcome of a call that raised
Raised(e) == [raised |-> e]
IsRaised(r) == DOMAIN r = {"raised"}

(***************************************************************************)
(* _calculate_semantic_similarity.  enc is what the embedding model and    *)
(* cosine_similarity produce for this call: "raise" when encode raises,    *)
(* else the row of similarities, one per element of expected_themes.       *)
(***************************************************************************)
EncodeRaises == <<-1>>

RECURSIVE ZipDictKeepFirst(_, _, _)
\* a faulty variant: a theme already in the dict keeps its first score
ZipDictKeepFirst(themes, sims, i) ==
    IF i = 0 THEN EmptyDict
    ELSE LET d == ZipDictKeepFirst(themes, sims, i - 1) IN
         [k \in DOMAIN d \cup {themes[i]} |-> IF k \in DOMAIN d THEN d[k] ELSE sims[i]]

RECURSIVE ZipDict(_, _, _)
\* {theme: float(sim) for theme, sim in zip(expected_themes, similarities)}
ZipDict(themes, sims, i) ==
    IF i = 0 THEN EmptyDict
    ELSE LET d == ZipDict(themes, sims, i - 1) IN
         [k \in DOMAIN d \cup {themes[i]} |-> IF k = themes[i] THEN sims[i] ELSE d[k]]

_calculate_semantic_similarity(ai_response, expected_themes, enc) ==
    IF Len(expected_themes) = 0 THEN EmptyDict
    ELSE IF enc = EncodeRaises THEN Raised("RuntimeError: encode failed")
    ELSE ZipDict(expected_themes, enc, Len(expected_themes))

(***************************************************************************)
(* _extract_information_type.  doc_ents is doc.ents of self.nlp(text): a   *)
(* sequence of [text, label_].                                             *)
(***************************************************************************)
extraction_patterns ==
    [client_name |-> [entities |-> <<"PERSON">>,
                      keywords |-> <<"name is", "called", "my name">>],
     location |-> [entities |-> <<"GPE", "LOC">>,
                   keywords |-> <<"live in", "from", "located">>],
     accident_details |-> [keywords |-> <<"accident", "crash", "collision", "hit">>],
     fault_determination |-> [keywords |-> <<"red light", "fault", "responsible", "caused">>]]

RECURSIVE EntityTexts(_, _, _)
\* [ent.text for ent in doc.ents if ent.label_ in labels]
EntityTexts(doc_ents, labels, i) ==
    IF i > Len(doc_ents) THEN <<>>
    ELSE IF doc_ents[i].label_ \in Range(labels)
         THEN <<doc_ents[i].text>> \o EntityTexts(doc_ents, labels, i + 1)
         ELSE EntityTexts(doc_ents, labels, i + 1)

RECURSIVE FoundIn(_, _, _)
\* [p for p in phrases if p in text_lower]
FoundIn(phrases, text_lower, i) ==
    IF i > Len(phrases) THEN <<>>
    ELSE IF Contains(phrases[i], text_lower)
         THEN <<phrases[i]>> \o FoundIn(phrases, text_lower, i + 1)
         ELSE FoundIn(phrases, text_lower, i + 1)

\* a faulty variant: only the entities decide extracted
ExtractEntitiesDecide(text, info_type, doc_ents) ==
    LET pattern == Get(extraction_patterns, info_type, EmptyDict)
        entities == IF "entities" \in DOMAIN pattern
                    THEN EntityTexts(doc_ents, pattern.entities, 1) ELSE <<>>
        keywords_found == IF "keywords" \in DOMAIN pattern
                          THEN FoundIn(pattern.keywords, Lower(text), 1) ELSE <<>>
    IN [entities_found |-> entities,
        keywords_found |-> keywords_found,
        extraction_confidence |-> Len(entities) + Len(keywords_found),
        extracted |-> (Len(entities) > 0)]

_extract_information_type(text, info_type, doc_ents) ==
    LET pattern == Get(extraction_patterns, info_type, EmptyDict)
        entities == IF "entities" \in DOMAIN pattern
                    THEN EntityTexts(doc_ents, pattern.entities, 1) ELSE <<>>
        keywords_found == IF "keywords" \in DOMAIN pattern
                          THEN FoundIn(pattern.keywords, Lower(text), 1) ELSE <<>>
    IN [entities_found |-> entities,
        keywords_found |-> keywords_found,
        extraction_confidence |-> Len(entities) + Len(keywords_found),
        extracted |-> (Len(entities) > 0 \/ Len(keywords_found) > 0)]

(***************************************************************************)
(* _analyze_tone.                                                          *)
(***************************************************************************)
tone_indicators ==
    [professional |-> <<"attorney", "legal", "information", "assist", "help">>,
     empathetic |-> <<"sorry", "understand", "difficult", "experience">>,
     legally_compliant |-> <<"not legal advice", "attorney will", "cannot provide advice">>]

ToneScore(text_lower, requirement) ==
    LET indicators == Get(tone_indicators, requirement, <<>>)
        found_indicators == FoundIn(indicators, text_lower, 1)
    IN [indicators_found |-> found_indicators,
        score |-> IF Len(indicators) > 0
                  THEN Rat(Len(found_indicators), Len(indicators)) ELSE Rat(0, 1),
        meets_requirement |-> Len(found_indicators) > 0]

\* a faulty variant: the text is not lowercased before the indicators are sought
AnalyzeToneCaseSensitive(text, tone_requirements) ==
    [requirement \in Range(tone_requirements) |-> ToneScore(text, requirement)]

_analyze_tone(text, tone_requirements) ==
    [requirement \in Range(tone_requirements) |-> ToneScore(Lower(text), requirement)]

(***************************************************************************)
(* _check_compliance.                                                      *)
(***************************************************************************)
RECURSIVE ComplianceLoop(_, _, _, _)
\* for prohibited in prohibited_content: if prohibited.lower() in text_lower: append
ComplianceLoop(text_lower, prohibited_content, i, violations) ==
    IF i > Len(prohibited_content) THEN violations
    ELSE ComplianceLoop(text_lower, prohibited_content, i + 1,
            IF Contains(Lower(prohibited_content[i]), text_lower)
            THEN Append(violations, prohibited_content[i]) ELSE violations)

\* a faulty variant: the prohibited phrase is not lowercased before the test
CheckComplianceCaseSensitive(text, prohibited_content) ==
    FoundIn(prohibited_content, Lower(text), 1)

_check_compliance(text, prohibited_content) ==
    ComplianceLoop(Lower(text), prohibited_content, 1, <<>>)

(***************************************************************************)
(* _analyze_conversation, lines 311-316: the compliance entry of a report. *)
(***************************************************************************)
ComplianceCheck(text, prohibited_content) ==
    LET compliance_issues == _check_compliance(text, prohibited_content)
    IN [violations |-> compliance_issues, is_compliant |-> (Len(compliance_issues) = 0)]

(***************************************************************************)
(* _analyze_conversation, lines 288-295: the entry of one matched turn.    *)
(***************************************************************************)
RECURSIVE DictValues(_, _)
\* list(d.values()), for the keys given
DictValues(d, keys) ==
    IF keys = {} THEN <<>>
    ELSE LET k == CHOOSE x \in keys : TRUE IN <<d[k]>> \o DictValues(d, keys \ {k})

SimilarityEntry(ai_response, template_turn, enc) ==
    LET expected_themes == Get(template_turn, "expected_ai_themes", <<>>)
        similarity_scores == _calculate_semantic_similarity(ai_response, expected_themes, enc)
    IN IF IsRaised(similarity_scores) THEN similarity_scores
       ELSE [expected_themes |-> expected_themes,
             similarity_scores |-> similarity_scores,
             avg_similarity |->
                 IF DOMAIN similarity_scores # {}
                 THEN mean(IntsToRats(DictValues(similarity_scores, DOMAIN similarity_scores)))
                 ELSE Rat(0, 1)]

(***************************************************************************)
(* _analyze_conversation, lines 262-327.                                   *)
(***************************************************************************)
ExecutionFailed == [error |-> "Conversation execution failed"]

\* a faulty variant: conversation_data.get('success', True)
SucceededByDefault(cd) == Get(cd, "success", TRUE)

\* conversation_data.get('success', False)
Succeeded(cd) == Get(cd, "success", FALSE)

\* line 269: the empty analysis
NewAnalysis ==
    [semantic_similarity |-> EmptyDict,
     information_extraction |-> EmptyDict,
     tone_analysis |-> EmptyDict,
     compliance_check |-> EmptyDict,
     performance_metrics |-> EmptyDict]

\* f'turn_{turn_num}'
TurnKey(turn_num) == "turn_" \o ToString(turn_num)

\* a faulty variant: the template turn is taken by its position in the flow
TemplateTurnAtPosition(flow, turn_num) ==
    IF turn_num \in 1..Len(flow) THEN turn_num ELSE 0

\* line 283: next((t for t in conversation_flow if t['turn'] == turn_num), None);
\* 0 stands for None, else the index of the first match
TemplateTurnIndex(flow, turn_num) ==
    IF \E j \in 1..Len(flow) : flow[j].turn = turn_num
    THEN CHOOSE j \in 1..Len(flow) :
            flow[j].turn = turn_num /\ \A k \in 1..(j - 1) : flow[k].turn # turn_num
    ELSE 0

\* lines 279-295: the body of the turn loop, on the analysis built so far
TurnStep(an, turn_data, tmpl, enc) ==
    LET turn_num == turn_data.turn
        j == TemplateTurnIndex(tmpl.conversation_flow, turn_num)
        entry == SimilarityEntry(turn_data.ai_response, tmpl.conversation_flow[j], enc)
    IN IF j = 0 THEN an
       ELSE IF IsRaised(entry) THEN entry
       ELSE [an EXCEPT !.semantic_similarity =
                [k \in DOMAIN an.semantic_similarity \cup {TurnKey(turn_num)} |->
                    IF k = TurnKey(turn_num) THEN entry ELSE an.semantic_similarity[k]]]

\* line 298
FullText(conversation) == Join([i \in 1..Len(conversation) |-> conversation[i].ai_response])

\* line 324
SuccessfulTurns(conversation) ==
    Cardinality({i \in 1..Len(conversation) : Len(conversation[i].ai_response) > 10})

\* lines 297-327: what follows the turn loop
RestStep(an, conversation, tmpl, doc_ents) ==
    LET text == FullText(conversation)
        required_info == Get(tmpl.validation_criteria, "information_capture", <<>>)
        tone_requirements == Get(tmpl.validation_criteria, "tone_requirements", <<>>)
        prohibited_content == Get(tmpl.validation_criteria, "prohibited_content", <<>>)
        response_times == [i \in 1..Len(conversation) |-> conversation[i].response_time_ms]
    IN IF Len(conversation) = 0 THEN Raised("StatisticsError: mean requires at least one data point")
       ELSE [an EXCEPT
               !.information_extraction =
                   [info_type \in Range(required_info) |->
                       _extract_information_type(text, info_type, doc_ents)],
               !.tone_analysis = _analyze_tone(text, tone_requirements),
               !.compliance_check = ComplianceCheck(text, prohibited_content),
               !.performance_metrics =
                   [avg_response_time_ms |-> mean(IntsToRats(response_times)),
                    max_response_time_ms |-> max(response_times),
                    total_turns |-> Len(conversation),
                    successful_turns |-> SuccessfulTurns(conversation)]]

RECURSIVE TurnLoop(_, _, _, _, _)
\* the turn loop from turn i on; encs[i] is the embedding outcome of turn i
TurnLoop(an, conversation, tmpl, encs, i) ==
    IF i > Len(conversation) THEN an
    ELSE LET next == TurnStep(an, conversation[i], tmpl, encs[i])
         IN IF IsRaised(next) THEN next
            ELSE TurnLoop(next, conversation, tmpl, encs, i + 1)

_analyze_conversation(cd, tmpl, encs, doc_ents) ==
    IF ~Succeeded(cd) THEN ExecutionFailed
    ELSE IF "conversation" \notin DOMAIN cd THEN Raised("KeyError: 'conversation'")
    ELSE LET an == TurnLoop(NewAnalysis, cd.conversation, tmpl, encs, 1)
         IN IF IsRaised(an) THEN an
            ELSE RestStep(an, cd.conversation, tmpl, doc_ents)

(***************************************************************************)
(* _generate_recommendations and generate_report.  A result is a record    *)
(* [template, execution_time, conversation_data, analysis] (lines 83-89)   *)
(* or the error entry [template, error] of main (lines 549-553); the       *)
(* timestamps are left out.                                                *)
(***************************************************************************)
AlignmentThreshold == 60    \* 0.6, in hundredths

\* a non-negative number of hundredths as a decimal with two digits
TwoDigits(q) ==
    ToString(q \div 100) \o "." \o (IF q % 100 < 10 THEN "0" ELSE "") \o ToString(q % 100)

\* f"{x:.2f}" of a non-negative value given in hundredths: the nearest
\* hundredth, and the even one when the value is half way between two
Format2f(x) ==
    LET f == x.num \div x.den
        r == x.num - f * x.den
        q == IF 2 * r < x.den THEN f
             ELSE IF 2 * r > x.den THEN f + 1
             ELSE IF f % 2 = 0 THEN f ELSE f + 1
    IN TwoDigits(q)

RECURSIVE JoinSepFrom(_, _, _)
JoinSepFrom(strs, sep, i) ==
    IF i > Len(strs) THEN ""
    ELSE IF i = Len(strs) THEN strs[i]
    ELSE strs[i] \o sep \o JoinSepFrom(strs, sep, i + 1)

\* sep.join(strs)
JoinSep(strs, sep) == JoinSepFrom(strs, sep, 1)

RECURSIVE ListOfSet(_)
\* list(a set): its elements, each once, in the order the set iterates
ListOfSet(S) ==
    IF S = {} THEN <<>>
    ELSE LET x == CHOOSE y \in S : TRUE IN <<x>> \o ListOfSet(S \ {x})

LowAlignmentPrefix == "AI response alignment with expected themes is low ("
LowAlignmentSuffix == "). Consider refining training data or prompts."
CompliancePrefix == "Compliance violations detected: "
ComplianceSuffix == ". Review AI boundaries and constraints."

RECURSIVE AllSimilarities(_, _)
\* lines 454-460: every avg_similarity of every result that has an analysis
AllSimilarities(rs, i) ==
    IF i > Len(rs) THEN <<>>
    ELSE IF "analysis" \in DOMAIN rs[i]
         THEN LET turns == Get(rs[i].analysis, "semantic_similarity", EmptyDict)
              IN DictValues([k \in DOMAIN turns |-> Get(turns[k], "avg_similarity", Rat(0, 1))],
                            DOMAIN turns)
                 \o AllSimilarities(rs, i + 1)
         ELSE AllSimilarities(rs, i + 1)

RECURSIVE AllViolations(_, _)
\* lines 454-463: the violations of every result that has an analysis
AllViolations(rs, i) ==
    IF i > Len(rs) THEN <<>>
    ELSE IF "analysis" \in DOMAIN rs[i]
         THEN Get(Get(rs[i].analysis, "compliance_check", EmptyDict), "violations", <<>>)
              \o AllViolations(rs, i + 1)
         ELSE AllViolations(rs, i + 1)

\* a faulty variant: a mean equal to the threshold counts as low
LowAlignmentAtThreshold(all_similarities) ==
    IF Len(all_similarities) > 0
       /\ ~RatLess(Int2Rat(AlignmentThreshold), mean(all_similarities))
    THEN <<LowAlignmentPrefix \o Format2f(mean(all_similarities)) \o LowAlignmentSuffix>>
    ELSE <<>>

\* lines 466-469: the recommendations the similarities give
LowAlignment(all_similarities) ==
    IF Len(all_similarities) > 0
       /\ RatLess(mean(all_similarities), Int2Rat(AlignmentThreshold))
    THEN <<LowAlignmentPrefix \o Format2f(mean(all_similarities)) \o LowAlignmentSuffix>>
    ELSE <<>>

\* a faulty variant: the issues are joined as collected, without set()
ComplianceNotDeduplicated(compliance_issues) ==
    IF Len(compliance_issues) > 0
    THEN <<CompliancePrefix \o JoinSep(compliance_issues, ", ") \o ComplianceSuffix>>
    ELSE <<>>

\* lines 471-473: the recommendations the violations give
ComplianceRecommendation(compliance_issues) ==
    IF Len(compliance_issues) > 0
    THEN LET unique_issues == ListOfSet(Range(compliance_issues))
         IN <<CompliancePrefix \o JoinSep(unique_issues, ", ") \o ComplianceSuffix>>
    ELSE <<>>

_generate_recommendations(rs) ==
    LowAlignment(AllSimilarities(rs, 1)) \o ComplianceRecommendation(AllViolations(rs, 1))

\* lines 425-434; what the code does after the report dict is built (writing
\* the two files) is taken to succeed
generate_report(rs) ==
    IF \E i \in 1..Len(rs) : "execution_time" \notin DOMAIN rs[i]
    THEN Raised("KeyError: 'execution_time'")
    ELSE IF Len(rs) = 0
    THEN Raised("StatisticsError: mean requires at least one data point")
    ELSE [summary |->
              [total_templates_tested |-> Len(rs),
               successful_conversations |->
                   Cardinality({i \in 1..Len(rs) : "analysis" \in DOMAIN rs[i]}),
               avg_execution_time |->
                   mean(IntsToRats([i \in 1..Len(rs) |-> rs[i].execution_time]))],
          detailed_results |-> rs,
          recommendations |-> _generate_recommendations(rs)]

(***************************************************************************)
(* Inputs.  A template file is [name, data], data being the parsed YAML    *)
(* mapping.  A transcript turn carries the fields the analysis reads.      *)
(***************************************************************************)
Scores == {30, 90}      \* cosine similarities, in hundredths
ExecTimes == {2, 4}     \* execution times, in seconds

Turn(n, response, ms) == [turn |-> n, ai_response |-> response, response_time_ms |-> ms]

CarFile ==
    [name |-> "car_accident.yaml",
     data |-> [case_type |-> "car_accident",
               practice_area |-> "personal_injury",
               conversation_flow |->
                   <<[turn |-> 1, expected_ai_themes |-> <<"empathy", "empathy">>],
                     [turn |-> 2, expected_ai_themes |-> <<"legal">>]>>,
               validation_criteria |->
                   [information_capture |-> <<"fault_determination", "injuries">>,
                    tone_requirements |-> <<"empathetic", "friendly">>,
                    prohibited_content |-> <<"at fault", "At Fault", "guarantee">>]]]

SlipFile ==
    [name |-> "slip_fall.yaml",
     data |-> [case_type |-> "slip_fall",
               practice_area |-> "personal_injury",
               conversation_flow |->
                   <<[turn |-> 1], [turn |-> 3, expected_ai_themes |-> <<"empathy">>]>>]]

EmptyFile ==
    [name |-> "empty.yml",
     data |-> [case_type |-> "empty",
               practice_area |-> "family",
               conversation_flow |-> <<>>,
               validation_criteria |-> [prohibited_content |-> <<"guarantee">>]]]

BadFile ==
    [name |-> "bad.yaml",
     data |-> [practice_area |-> "family", conversation_flow |-> <<>>]]

TemplateFiles == {CarFile, SlipFile, EmptyFile, BadFile}

Batches == UNION {[1..n -> TemplateFiles] : n \in 1..MaxTemplates}

\* what json.loads(result.stdout) or the non-zero return code gives
TwoTurns ==
    [success |-> TRUE,
     conversation |-> <<Turn(1, "Sorry, my name is Al", 300), Turn(2, "You are AT FAULT", 100)>>]
ShortTurn == [success |-> TRUE, conversation |-> <<Turn(1, "", 100)>>]
NoTurns == [success |-> TRUE, conversation |-> <<>>]
SameTurnTwice ==
    [success |-> TRUE,
     conversation |-> <<Turn(1, "Sorry", 100), Turn(1, "We guarantee a win", 300)>>]
CaughtError ==
    [success |-> FALSE, error |-> "Navigation timeout",
     conversation |-> <<Turn(1, "You are AT FAULT", 100)>>]
ScriptFailed == [success |-> FALSE, error |-> "node: stderr"]
NoSuccessField == [conversation |-> <<Turn(1, "Sorry", 100)>>]
NoConversationKey == [success |-> TRUE]

ConversationResults ==
    {TwoTurns, ShortTurn, NoTurns, SameTurnTwice, CaughtError, ScriptFailed, NoSuccessField,
     NoConversationKey}

\* _run_puppeteer_conversation raising (TimeoutExpired, JSONDecodeError)
RunRaises == Raised("TimeoutExpired")

\* doc.ents of self.nlp(text)
Docs ==
    {<<>>,
     <<[text |-> "Al", label_ |-> "PERSON"], [text |-> "Ohio", label_ |-> "GPE"],
       [text |-> "Al", label_ |-> "PERSON"]>>}

\* the outcomes of the embedding call for a theme list
EncsFor(themes) ==
    IF Len(themes) = 0 THEN {<<>>}
    ELSE {EncodeRaises} \cup [1..Len(themes) -> Scores]

(***************************************************************************)
(* ConversationTemplate.__init__ (lines 38-46).                            *)
(***************************************************************************)
TemplateLoads(file) ==
    {"case_type", "practice_area", "conversation_flow"} \subseteq DOMAIN file.data

ConversationTemplate(file) ==
    [case_type |-> file.data.case_type,
     practice_area |-> file.data.practice_area,
     conversation_flow |-> file.data.conversation_flow,
     validation_criteria |-> Get(file.data, "validation_criteria", EmptyDict),
     template_path |-> file.name]

(***************************************************************************)
(* main (lines 539-560) and execute_conversation_template (lines 67-89).   *)
(***************************************************************************)
NoTemplate == EmptyDict
NoData == EmptyDict
NoReport == EmptyDict
NoCall == [fn |-> "none"]

Init ==
    /\ pc = "load"
    /\ template_files \in Batches
    /\ file_i = 1
    /\ results = <<>>
    /\ template = NoTemplate
    /\ conversation_data = NoData
    /\ execution_time = 0
    /\ analysis = EmptyDict
    /\ turn_i = 0
    /\ full_conversation_text = ""
    /\ calls = 0
    /\ embed_failed = {}
    /\ report = NoReport
    /\ call = NoCall
    /\ ret = EmptyDict

\* the locals of execute_conversation_template and _analyze_conversation go
\* out of scope, and the for loop of main moves on
NextFile ==
    /\ file_i' = file_i + 1
    /\ pc' = IF file_i = Len(template_files) THEN "report" ELSE "load"
    /\ template' = NoTemplate
    /\ conversation_data' = NoData
    /\ execution_time' = 0
    /\ analysis' = EmptyDict
    /\ turn_i' = 0
    /\ full_conversation_text' = ""
    /\ UNCHANGED <<template_files, report, call, ret>>

\* lines 547-553: the except clause of main
Except(e) ==
    /\ results' = Append(results, [template |-> template_files[file_i].name, error |-> e])
    /\ NextFile

\* line 543
LoadTemplate ==
    /\ pc = "load"
    /\ calls' = 0
    /\ embed_failed' = {}
    /\ IF TemplateLoads(template_files[file_i])
       THEN /\ template' = ConversationTemplate(template_files[file_i])
            /\ pc' = "run"
            /\ UNCHANGED <<template_files, file_i, results, conversation_data, execution_time,
                           analysis, turn_i, full_conversation_text, report, call, ret>>
       ELSE Except("KeyError: 'case_type'")

\* lines 73-78
RunPuppeteer ==
    /\ pc = "run"
    /\ \E out \in ConversationResults \cup {RunRaises} :
          IF IsRaised(out)
          THEN Except(out.raised) /\ UNCHANGED <<calls, embed_failed>>
          ELSE /\ conversation_data' = out
               /\ \E t \in ExecTimes : execution_time' = t
               /\ pc' = "analyze"
               /\ UNCHANGED <<template_files, file_i, results, template, analysis, turn_i,
                              full_conversation_text, calls, embed_failed, report, call, ret>>

\* lines 265-275
AnalyzeStart ==
    /\ pc = "analyze"
    /\ IF ~Succeeded(conversation_data)
       THEN /\ analysis' = ExecutionFailed
            /\ pc' = "return"
            /\ UNCHANGED <<template_files, file_i, results, template, conversation_data,
                           execution_time, turn_i, full_conversation_text, calls,
                           embed_failed, report, call, ret>>
       ELSE IF "conversation" \notin DOMAIN conversation_data
       THEN Except("KeyError: 'conversation'") /\ UNCHANGED <<calls, embed_failed>>
       ELSE /\ analysis' = NewAnalysis
            /\ turn_i' = 1
            /\ pc' = "turns"
            /\ UNCHANGED <<template_files, file_i, results, template, conversation_data,
                           execution_time, full_conversation_text, calls, embed_failed,
                           report, call, ret>>

\* lines 278-295: one iteration of the turn loop
AnalyzeTurn ==
    /\ pc = "turns"
    /\ turn_i <= Len(conversation_data.conversation)
    /\ LET turn_data == conversation_data.conversation[turn_i]
           j == TemplateTurnIndex(template.conversation_flow, turn_data.turn)
           themes == IF j = 0 THEN <<>>
                     ELSE Get(template.conversation_flow[j], "expected_ai_themes", <<>>)
       IN \E enc \in EncsFor(themes) :
             LET next == TurnStep(analysis, turn_data, template, enc)
             IN IF IsRaised(next)
                THEN /\ Except(next.raised)
                     /\ calls' = calls + 1
                     /\ embed_failed' = embed_failed \cup {turn_data.turn}
                ELSE /\ analysis' = next
                     /\ turn_i' = turn_i + 1
                     /\ calls' = IF j = 0 THEN calls ELSE calls + 1
                     /\ UNCHANGED <<pc, template_files, file_i, results, template,
                                    conversation_data, execution_time,
                                    full_conversation_text, embed_failed, report, call, ret>>

\* lines 297-327: the rest of the analysis, once the turn loop is over
AnalyzeRest ==
    /\ pc = "turns"
    /\ turn_i > Len(conversation_data.conversation)
    /\ LET required_info == Get(template.validation_criteria, "information_capture", <<>>)
       IN \E doc_ents \in (IF Len(required_info) = 0 THEN {<<>>} ELSE Docs) :
             LET next == RestStep(analysis, conversation_data.conversation, template, doc_ents)
             IN /\ calls' = calls + Len(required_info) + 2
                /\ IF IsRaised(next)
                   THEN Except(next.raised) /\ UNCHANGED embed_failed
                   ELSE /\ analysis' = next
                        /\ full_conversation_text' = FullText(conversation_data.conversation)
                        /\ pc' = "return"
                        /\ UNCHANGED <<template_files, file_i, results, template,
                                       conversation_data, execution_time, turn_i,
                                       embed_failed, report, call, ret>>

\* lines 83-89 and 545: the result is returned and appended
ReturnResult ==
    /\ pc = "return"
    /\ results' = Append(results, [template |-> template.case_type,
                                   execution_time |-> execution_time,
                                   conversation_data |-> conversation_data,
                                   analysis |-> analysis])
    /\ NextFile
    /\ calls' = 0
    /\ embed_failed' = {}

\* lines 556-560 and generate_report
GenerateReport ==
    /\ pc = "report"
    /\ report' = generate_report(results)
    /\ pc' = IF IsRaised(report') THEN "crashed" ELSE "done"
    /\ UNCHANGED <<template_files, file_i, results, template, conversation_data,
                   execution_time, analysis, turn_i, full_conversation_text, calls,
                   embed_failed, call, ret>>

Next ==
    \/ LoadTemplate
    \/ RunPuppeteer
    \/ AnalyzeStart
    \/ AnalyzeTurn
    \/ AnalyzeRest
    \/ ReturnResult
    \/ GenerateReport

Spec == Init /\ [][Next]_vars

\* main runs to its end: every step is taken once it is enabled
FairSpec == Spec /\ WF_vars(Next)

(***************************************************************************)
(* Unit specification: one call of one function of the validator, on       *)
(* arguments drawn from the sets below.  The outcome of the embedding      *)
(* model (enc) and of the entity recogniser (doc_ents) is an argument.     *)
(***************************************************************************)
Texts ==
    {"", "Sorry", "You are AT FAULT", "My name is Al", "We guarantee: not At Fault",
     "I was hit from behind, an attorney will help"}

Themes == {"empathy", "legal"}
ThemeLists == UNION {[1..n -> Themes] : n \in 0..MaxThemes}

ProhibitedPhrases == {"at fault", "At Fault", "guarantee"}
ProhibitedLists == UNION {[1..n -> ProhibitedPhrases] : n \in 0..MaxProhibited}

InfoTypes == {"client_name", "location", "accident_details", "fault_determination", "injuries"}

ToneLists ==
    {<<>>, <<"professional">>, <<"empathetic">>, <<"legally_compliant">>, <<"friendly">>,
     <<"empathetic", "friendly">>, <<"professional", "professional">>}

\* the entry main appends when a template raises
ErrorEntry(name, e) == [template |-> name, error |-> e]

\* a template whose prohibited content names one phrase twice
RepeatFile ==
    [name |-> "repeat.yaml",
     data |-> [case_type |-> "repeat",
               practice_area |-> "family",
               conversation_flow |-> <<[turn |-> 1, expected_ai_themes |-> <<"legal">>]>>,
               validation_criteria |->
                   [prohibited_content |-> <<"guarantee", "win", "guarantee">>]]]

\* the result of executing a template file on a captured conversation
ResultOf(file, cd, encs, doc_ents, t) ==
    LET tmpl == ConversationTemplate(file)
        an == _analyze_conversation(cd, tmpl, encs, doc_ents)
    IN IF IsRaised(an) THEN ErrorEntry(file.name, an.raised)
       ELSE [template |-> tmpl.case_type, execution_time |-> t,
             conversation_data |-> cd, analysis |-> an]

\* the executions the unit results come from: template file, capture,
\* embedding outcome of each turn, execution time
Executions ==
    {[file |-> CarFile, cd |-> TwoTurns, encs |-> <<<<30, 30>>, <<30>>>>, t |-> 2],
     [file |-> CarFile, cd |-> TwoTurns, encs |-> <<<<90, 90>>, <<90>>>>, t |-> 4],
     [file |-> CarFile, cd |-> ShortTurn, encs |-> <<<<30, 90>>>>, t |-> 4],
     [file |-> SlipFile, cd |-> SameTurnTwice, encs |-> <<<<>>, <<>>>>, t |-> 2],
     [file |-> CarFile, cd |-> CaughtError, encs |-> <<>>, t |-> 2],
     [file |-> SlipFile, cd |-> ScriptFailed, encs |-> <<>>, t |-> 4],
     [file |-> EmptyFile, cd |-> NoTurns, encs |-> <<>>, t |-> 2],
     [file |-> CarFile, cd |-> TwoTurns, encs |-> <<EncodeRaises, <<30>>>>, t |-> 2],
     [file |-> CarFile, cd |-> TwoTurns, encs |-> <<<<30, 30>>, <<40>>>>, t |-> 2],
     [file |-> CarFile, cd |-> TwoTurns, encs |-> <<<<80, 80>>, <<90>>>>, t |-> 4],
     [file |-> RepeatFile, cd |-> SameTurnTwice, encs |-> <<<<30>>, <<90>>>>, t |-> 4]}

ResultItems ==
    {ResultOf(x.file, x.cd, x.encs, <<>>, x.t) : x \in Executions}
    \cup {ErrorEntry(BadFile.name, "KeyError: 'case_type'")}

ResultLists == UNION {[1..n -> ResultItems] : n \in 0..MaxResults}

Calls ==
    {[fn |-> "SimilarityEntry", ai_response |-> "Sorry", template_turn |-> tt, enc |-> enc] :
        tt \in {[turn |-> 1]}, enc \in {<<>>}}
    \cup UNION {{[fn |-> "SimilarityEntry", ai_response |-> "Sorry",
                  template_turn |-> [turn |-> 1, expected_ai_themes |-> themes],
                  enc |-> enc] : enc \in EncsFor(themes)} : themes \in ThemeLists}
    \cup {[fn |-> "_extract_information_type", text |-> text, info_type |-> it,
           doc_ents |-> d] : text \in Texts, it \in InfoTypes, d \in Docs}
    \cup {[fn |-> "_analyze_tone", text |-> text, tone_requirements |-> tl] :
            text \in Texts, tl \in ToneLists}
    \cup {[fn |-> "ComplianceCheck", text |-> text, prohibited_content |-> pl] :
            text \in Texts, pl \in ProhibitedLists}
    \cup {[fn |-> fn, results |-> rs] :
            fn \in {"generate_report", "_generate_recommendations"}, rs \in ResultLists}

InitUnit ==
    /\ pc = "call"
    /\ call \in Calls
    /\ ret = EmptyDict
    /\ template_files = <<>>
    /\ file_i = 0
    /\ results = <<>>
    /\ template = NoTemplate
    /\ conversation_data = NoData
    /\ execution_time = 0
    /\ analysis = EmptyDict
    /\ turn_i = 0
    /\ full_conversation_text = ""
    /\ calls = 0
    /\ embed_failed = {}
    /\ report = NoReport

Returns(value) ==
    /\ pc = "call"
    /\ ret' = value
    /\ pc' = "returned"
    /\ UNCHANGED <<template_files, file_i, results, template, conversation_data,
                   execution_time, analysis, turn_i, full_conversation_text, calls,
                   embed_failed, report, call>>

CallSimilarityEntry ==
    /\ call.fn = "SimilarityEntry"
    /\ Returns(SimilarityEntry(call.ai_response, call.template_turn, call.enc))

CallExtractInformationType ==
    /\ call.fn = "_extract_information_type"
    /\ Returns(_extract_information_type(call.text, call.info_type, call.doc_ents))

CallAnalyzeTone ==
    /\ call.fn = "_analyze_tone"
    /\ Returns(_analyze_tone(call.text, call.tone_requirements))

CallComplianceCheck ==
    /\ call.fn = "ComplianceCheck"
    /\ Returns(ComplianceCheck(call.text, call.prohibited_content))

CallGenerateReport ==
    /\ call.fn = "generate_report"
    /\ Returns(generate_report(call.results))

CallGenerateRecommendations ==
    /\ call.fn = "_generate_recommendations"
    /\ Returns(_generate_recommendations(call.results))

NextUnit ==
    \/ CallSimilarityEntry
    \/ CallExtractInformationType
    \/ CallAnalyzeTone
    \/ CallComplianceCheck
    \/ CallGenerateReport
    \/ CallGenerateRecommendations

SpecUnit == InitUnit /\ [][NextUnit]_vars

(***************************************************************************)
(* Properties.                                                             *)
(***************************************************************************)
\* a capture that failed: success is false, or there is no success field
FailedCapture(cd) == "success" \notin DOMAIN cd \/ ~cd.success

\* an analysis that is a report, not an error record
IsReport(an) == "semantic_similarity" \in DOMAIN an

\* a result that carries a usable AnalysisReport
Usable(r) == "analysis" \in DOMAIN r /\ IsReport(r.analysis)

\* C1: when the capture failed (success false or absent), the analysis step
\* returns the error record at once: no scorer, extractor, tone or compliance
\* call is made and nothing is raised (no error entry is appended), whatever
\* the conversation field holds.
C1_FailedCaptureShortCircuits ==
    [][(pc = "analyze" /\ FailedCapture(conversation_data))
        => /\ pc' = "return"
           /\ analysis' = ExecutionFailed
           /\ calls' = 0
           /\ results' = results]_vars

C1_Witness ==
    /\ pc = "return"
    /\ FailedCapture(conversation_data)
    /\ "conversation" \in DOMAIN conversation_data
    /\ Len(conversation_data.conversation) > 0
    /\ analysis = ExecutionFailed

\* C2: in the report, successful_conversations is the number of results that
\* carry a usable AnalysisReport (a failed capture and an error entry do not
\* count), and total_templates_tested is the number of results.
C2_SuccessfulCountsUsableReports ==
    pc = "done" =>
        /\ report.summary.total_templates_tested = Len(results)
        /\ report.summary.successful_conversations =
              Cardinality({i \in 1..Len(results) : Usable(results[i])})

\* C3: whatever fails for the templates of a batch, main ends with the batch
\* report written, its total being the number of templates attempted.
C3_BatchReportAlwaysWritten ==
    pc \in {"done", "crashed"} =>
        /\ pc = "done"
        /\ report.summary.total_templates_tested = Len(template_files)

\* C4: generate_report on an empty list returns a report with total 0, no
\* successful conversation and no recommendation, and raises nothing.
C4_EmptyBatchReport ==
    (pc = "returned" /\ call.fn = "generate_report" /\ Len(call.results) = 0) =>
        /\ ~IsRaised(ret)
        /\ ret.summary.total_templates_tested = 0
        /\ ret.summary.successful_conversations = 0
        /\ Len(ret.recommendations) = 0

\* the results that have an execution time
Timed(rs) == {i \in 1..Len(rs) : "execution_time" \in DOMAIN rs[i]}

RECURSIVE SumTimes(_, _)
SumTimes(rs, idx) ==
    IF idx = {} THEN 0
    ELSE LET i == CHOOSE x \in idx : TRUE IN rs[i].execution_time + SumTimes(rs, idx \ {i})

\* C5: the average execution time of the report is the mean over the results
\* that have an execution time; a result without one (the error entry of
\* main) is left out of the mean and does not make the aggregation fail.
C5_MeanOverTimedResults ==
    (pc \in {"done", "crashed"} /\ Timed(results) # {}) =>
        /\ pc = "done"
        /\ report.summary.avg_execution_time =
              Rat(SumTimes(results, Timed(results)), Cardinality(Timed(results)))

\* C6: when the embedding call fails for a matched turn, the analysis goes on:
\* the turn gets an entry with no similarity score and avg_similarity 0, and
\* nothing is raised out of _analyze_conversation.
C6_EmbeddingFailureDegrades ==
    embed_failed # {} =>
        /\ pc \in {"turns", "return"}
        /\ \A n \in embed_failed :
              /\ TurnKey(n) \in DOMAIN analysis.semantic_similarity
              /\ DOMAIN analysis.semantic_similarity[TurnKey(n)].similarity_scores = {}
              /\ analysis.semantic_similarity[TurnKey(n)].avg_similarity = Rat(0, 1)

\* the turn numbers of a transcript, and of a template's conversation_flow
TranscriptTurnNumbers(conversation) == {conversation[i].turn : i \in 1..Len(conversation)}
FlowTurnNumbers(flow) == {flow[j].turn : j \in 1..Len(flow)}

Unmatched(i) ==
    conversation_data.conversation[i].turn \notin FlowTurnNumbers(template.conversation_flow)

\* C7: a report has a semantic_similarity entry for turn n exactly when the
\* transcript and the template's flow both have a turn numbered n; a
\* transcript turn without a template turn writes nothing and raises nothing,
\* and still counts in the full text and in total_turns.
C7_ReportState ==
    (pc = "return" /\ IsReport(analysis)) =>
        /\ DOMAIN analysis.semantic_similarity =
              {TurnKey(n) : n \in TranscriptTurnNumbers(conversation_data.conversation)
                                  \cap FlowTurnNumbers(template.conversation_flow)}
        /\ analysis.performance_metrics.total_turns = Len(conversation_data.conversation)
        /\ \A i \in 1..Len(conversation_data.conversation) :
              Contains(conversation_data.conversation[i].ai_response, full_conversation_text)

C7_UnmatchedTurnStep ==
    (pc = "turns" /\ turn_i <= Len(conversation_data.conversation) /\ Unmatched(turn_i))
        => /\ pc' = "turns"
           /\ turn_i' = turn_i + 1
           /\ analysis' = analysis
           /\ results' = results

\* C7: both parts, the entries of a finished report and the step of an
\* unmatched transcript turn.
C7_EntriesExactlyForMatchedTurns == []C7_ReportState /\ [][C7_UnmatchedTurnStep]_vars

C7_Witness ==
    /\ pc = "return"
    /\ IsReport(analysis)
    /\ \E i \in 1..Len(conversation_data.conversation) :
          /\ Unmatched(i)
          /\ Len(conversation_data.conversation[i].ai_response) > 0
    /\ DOMAIN analysis.semantic_similarity # {}
    /\ FlowTurnNumbers(template.conversation_flow)
          \ TranscriptTurnNumbers(conversation_data.conversation) # {}

\* the scorer was called and returned
ScorerReturned == pc = "returned" /\ call.fn = "SimilarityEntry" /\ ~IsRaised(ret)

ThemesOfCall == Get(call.template_turn, "expected_ai_themes", <<>>)

\* C8 as stated: the scorer keeps one entry per element of the theme
\* sequence, duplicates included.
C8_OneEntryPerThemeOccurrence ==
    ScorerReturned =>
        /\ Cardinality(DOMAIN ret.similarity_scores) = Len(ThemesOfCall)
        /\ (DOMAIN ret.similarity_scores = {}) = (Len(ThemesOfCall) = 0)

\* C8 as amended: the scorer keeps one entry per distinct theme string, keyed
\* by the theme text and holding the score of the theme's last occurrence;
\* the result is empty exactly when the theme sequence is.
C8_OneEntryPerDistinctTheme ==
    ScorerReturned =>
        /\ DOMAIN ret.similarity_scores = Range(ThemesOfCall)
        /\ Cardinality(DOMAIN ret.similarity_scores) = Cardinality(Range(ThemesOfCall))
        /\ \A i \in 1..Len(ThemesOfCall) :
              (\A j \in (i + 1)..Len(ThemesOfCall) : ThemesOfCall[j] # ThemesOfCall[i])
                  => ret.similarity_scores[ThemesOfCall[i]] = call.enc[i]
        /\ (DOMAIN ret.similarity_scores = {}) = (Len(ThemesOfCall) = 0)

C8_Witness ==
    /\ ScorerReturned
    /\ Len(ThemesOfCall) = 2
    /\ ThemesOfCall[1] = ThemesOfCall[2]
    /\ call.enc[1] # call.enc[2]
    /\ Cardinality(DOMAIN ret.similarity_scores) = 1

\* the positions of the prohibited list whose phrase, lowercased, occurs in
\* the lowercased text
Hits(text, prohibited) ==
    {i \in 1..Len(prohibited) : Contains(Lower(prohibited[i]), Lower(text))}

\* the k-th smallest element of a set of positions
KthOf(S, k) == CHOOSE i \in S : Cardinality({j \in S : j < i}) = k - 1

\* C9: the violations are the phrases of the prohibited list whose lowercased
\* form occurs in the lowercased text, in the list's order and with its
\* duplicates; is_compliant holds exactly when there is none.
C9_ViolationsAreTheMatchingSubsequence ==
    (pc = "returned" /\ call.fn = "ComplianceCheck") =>
        LET hits == Hits(call.text, call.prohibited_content) IN
        /\ Len(ret.violations) = Cardinality(hits)
        /\ \A k \in 1..Len(ret.violations) :
              ret.violations[k] = call.prohibited_content[KthOf(hits, k)]
        /\ ret.is_compliant = (hits = {})

C9_Witness ==
    /\ pc = "returned"
    /\ call.fn = "ComplianceCheck"
    /\ call.prohibited_content = <<"At Fault", "At Fault">>
    /\ call.text = "You are AT FAULT"
    /\ ret.violations = <<"At Fault", "At Fault">>
    /\ ~ret.is_compliant

RegisteredInfoTypes == {"client_name", "location", "accident_details", "fault_determination"}

\* C10: extraction_confidence is the number of entities plus the number of
\* keywords found and extracted says that this number is positive; a type
\* outside the registry finds nothing, so extracted is false and the
\* confidence 0.
C10_ConfidenceIsTheCount ==
    (pc = "returned" /\ call.fn = "_extract_information_type") =>
        /\ ret.extraction_confidence = Len(ret.entities_found) + Len(ret.keywords_found)
        /\ ret.extracted = (Len(ret.entities_found) + Len(ret.keywords_found) > 0)
        /\ call.info_type \notin RegisteredInfoTypes =>
              /\ Len(ret.entities_found) = 0
              /\ Len(ret.keywords_found) = 0
              /\ ~ret.extracted
              /\ ret.extraction_confidence = 0

C10_Witness ==
    /\ pc = "returned"
    /\ call.fn = "_extract_information_type"
    /\ call.info_type \notin RegisteredInfoTypes
    /\ Len(call.doc_ents) > 0
    /\ Len(call.text) > 0
    /\ ~ret.extracted

C10_WitnessKeywordsOnly ==
    /\ pc = "returned"
    /\ call.fn = "_extract_information_type"
    /\ Len(ret.entities_found) = 0
    /\ Len(ret.keywords_found) > 0
    /\ ret.extracted


\* the indicator phrases of a tone profile, none for a profile that is not known
IndicatorsOf(profile) ==
    IF profile \in DOMAIN tone_indicators THEN tone_indicators[profile] ELSE <<>>

\* the positions of a profile's indicators that occur in the text, whatever the case
Occurring(profile, text) ==
    {i \in 1..Len(IndicatorsOf(profile)) :
        Contains(Lower(IndicatorsOf(profile)[i]), Lower(text))}

ToneReturned == pc = "returned" /\ call.fn = "_analyze_tone"

\* C11: for each requested profile the score is the number of its indicators
\* that occur in the text (case-insensitively) over the number of its
\* indicators, so it lies in [0,1] and is 0 when none occurs;
\* meets_requirement says that at least one occurs; a profile that is not
\* known has no indicator, score 0 and meets_requirement false.
C11_ScoreIsTheHitRate ==
    ToneReturned =>
        /\ DOMAIN ret = Range(call.tone_requirements)
        /\ \A p \in DOMAIN ret :
              LET n == Cardinality(Occurring(p, call.text))
                  total == Len(IndicatorsOf(p))
              IN /\ Len(ret[p].indicators_found) = n
                 /\ ret[p].score.den > 0
                 /\ total > 0 => ret[p].score.num * total = n * ret[p].score.den
                 /\ total = 0 => ret[p].score.num = 0
                 /\ 0 <= ret[p].score.num /\ ret[p].score.num <= ret[p].score.den
                 /\ n = 0 => ret[p].score.num = 0
                 /\ ret[p].meets_requirement = (n > 0)
                 /\ p \notin {"professional", "empathetic", "legally_compliant"} =>
                       /\ Len(ret[p].indicators_found) = 0
                       /\ ret[p].score = Rat(0, 1)
                       /\ ~ret[p].meets_requirement

C11_Witness ==
    /\ ToneReturned
    /\ call.tone_requirements = <<"empathetic", "friendly">>
    /\ call.text = "Sorry"
    /\ ret["empathetic"].score = Rat(1, 4)
    /\ ret["empathetic"].meets_requirement
    /\ ret["friendly"].score = Rat(0, 1)
    /\ ~ret["friendly"].meets_requirement


HasPrefix(s, p) == Len(s) >= Len(p) /\ SubSeq(s, 1, Len(p)) = p

RecommendationsReturned == pc = "returned" /\ call.fn = "_generate_recommendations"

\* the successful reports among the results of a batch
SuccessfulReports(rs) == {i \in 1..Len(rs) : Usable(rs[i])}

\* the turns of every successful report, as (result, turn key) pairs
PooledTurns(rs) ==
    UNION {{<<i, k>> : k \in DOMAIN rs[i].analysis.semantic_similarity} :
            i \in SuccessfulReports(rs)}

RECURSIVE SumAvg(_, _)
\* the sum of the avg_similarity of a set of pooled turns
SumAvg(rs, turns) ==
    IF turns = {} THEN Rat(0, 1)
    ELSE LET t == CHOOSE x \in turns : TRUE
         IN RatAdd(rs[t[1]].analysis.semantic_similarity[t[2]].avg_similarity,
                   SumAvg(rs, turns \ {t}))

\* the low-alignment recommendations among the returned ones
LowAlignmentTexts(recs) == {j \in 1..Len(recs) : HasPrefix(recs[j], LowAlignmentPrefix)}

\* C12: the low-alignment recommendation is emitted exactly when the pool of
\* avg_similarity values (every turn of every successful report in the batch)
\* is non-empty and its mean is strictly below 0.6; there is at most one, and
\* it names that mean to two decimals (a hundredth at most half a hundredth
\* away from the mean).  Failed and errored items contribute nothing to the
\* pool.  Similarities are in hundredths.
C12_LowAlignmentIffPooledMeanBelowThreshold ==
    RecommendationsReturned =>
        LET rs == call.results
            pool == PooledTurns(rs)
            n == Cardinality(pool)
            sum == SumAvg(rs, pool)
            low == LowAlignmentTexts(ret)
        IN /\ (low # {}) <=> (n > 0 /\ sum.num < AlignmentThreshold * n * sum.den)
           /\ Cardinality(low) <= 1
           /\ \A j \in low :
                \E q \in 0..100 :
                    /\ ret[j] = LowAlignmentPrefix \o TwoDigits(q) \o LowAlignmentSuffix
                    /\ 2 * Abs(q * n * sum.den - sum.num) <= n * sum.den

\* the pool is [0.3, 0.4] and the recommendation names 0.35
C12_Witness ==
    /\ RecommendationsReturned
    /\ Len(call.results) = 1
    /\ Usable(call.results[1])
    /\ {call.results[1].analysis.semantic_similarity[k].avg_similarity :
            k \in DOMAIN call.results[1].analysis.semantic_similarity} = {Rat(30, 1), Rat(40, 1)}
    /\ ret = <<LowAlignmentPrefix \o "0.35" \o LowAlignmentSuffix,
               CompliancePrefix \o JoinSep(ListOfSet({"at fault", "At Fault"}), ", ")
                   \o ComplianceSuffix>>


\* the violations a successful report lists
ViolationsOf(r) == r.analysis.compliance_check.violations

\* the phrases violated in at least one successful report
ViolatedPhrases(rs) == UNION {Range(ViolationsOf(rs[i])) : i \in SuccessfulReports(rs)}

\* the orders in which the elements of a set can be listed, each once
Orderings(S) ==
    {f \in [1..Cardinality(S) -> S] : \A i, j \in 1..Cardinality(S) : f[i] = f[j] => i = j}

\* the compliance recommendations among the returned ones
ComplianceTexts(recs) == {j \in 1..Len(recs) : HasPrefix(recs[j], CompliancePrefix)}

\* C13: exactly one compliance recommendation is emitted when at least one
\* successful report has a violation, and none otherwise; its text lists
\* every violated phrase exactly once, comma-joined in some order, however
\* often the phrase was violated within a report or across reports.
C13_OneComplianceRecommendationListingEachPhraseOnce ==
    RecommendationsReturned =>
        LET phrases == ViolatedPhrases(call.results)
            comp == ComplianceTexts(ret)
        IN /\ Cardinality(comp) = (IF phrases # {} THEN 1 ELSE 0)
           /\ \A j \in comp :
                \E order \in Orderings(phrases) :
                    ret[j] = CompliancePrefix \o JoinSep(order, ", ") \o ComplianceSuffix

\* two successful reports violate the same phrase, one of them twice, and the
\* recommendation still names each of the two violated phrases once
C13_Witness ==
    /\ RecommendationsReturned
    /\ Len(call.results) = 2
    /\ \A i \in 1..2 : Usable(call.results[i])
                         /\ ViolationsOf(call.results[i]) = <<"guarantee", "win", "guarantee">>
    /\ \E j \in 1..Len(ret) :
            ret[j] \in {CompliancePrefix \o "guarantee, win" \o ComplianceSuffix,
                        CompliancePrefix \o "win, guarantee" \o ComplianceSuffix}


\* C14: an entry written by the turn loop is final: while the analysis goes
\* on, every semantic_similarity entry already written is kept as it is,
\* whatever turns follow, a later transcript turn with the same turn number
\* included.
C14_WrittenEntriesAreFinal ==
    [][(pc = "turns" /\ pc' \in {"turns", "return"})
        => \A k \in DOMAIN analysis.semantic_similarity :
              /\ k \in DOMAIN analysis'.semantic_similarity
              /\ analysis'.semantic_similarity[k] = analysis.semantic_similarity[k]]_vars


\* C15: once the turn loop of a successful capture is over, whatever the
\* number of turns (zero included), the analysis returns a report whose
\* performance metrics have total_turns = number of transcript turns and
\* 0 <= successful_turns <= total_turns, successful_turns being the number
\* of responses longer than 10 characters; nothing is raised.
C15_MetricsForEverySuccessfulCapture ==
    [][(pc = "turns" /\ turn_i > Len(conversation_data.conversation))
        => /\ pc' = "return"
           /\ results' = results
           /\ LET conversation == conversation_data.conversation
                  pm == analysis'.performance_metrics
              IN /\ pm.total_turns = Len(conversation)
                 /\ pm.successful_turns =
                       Cardinality({i \in 1..Len(conversation) :
                                       Len(conversation[i].ai_response) > 10})
                 /\ 0 <= pm.successful_turns
                 /\ pm.successful_turns <= pm.total_turns]_vars

====
